---- MODULE Spec2Model ----
(***************************************************************************)
(* Verification model of rembg-rs: the compositor and colormap of          *)
(* src/rembg.rs, the rank normalisation of ModelManager::run_inference     *)
(* (src/manager.rs) and the command-line run of src/bin/main.rs.           *)
(*                                                                         *)
(* f32 values are modelled as exact rationals num/den; `round` is Rust's   *)
(* f32::round (half away from zero) and `as u8` the saturating cast.       *)
(***************************************************************************)
EXTENDS Integers, Sequences, FiniteSets, TLC

VARIABLES
    \* ---- rembg(): "Apply mask to original image" (rembg.rs 82-158)
    cpc,            \* position in the compositor block
    thr_u8,         \* options.threshold
    binary,         \* options.binary
    sticker,        \* options.sticker
    width, height,  \* rgba_img.dimensions()
    rgba_img,       \* the source image converted to RGBA
    smooth_scale,   \* Option<f32>
    n,              \* pixels already visited by enumerate_pixels()
    mask_value,     \* loop local: mask_resized.get_pixel(x, y).0[0]
    alpha,          \* loop local: the alpha just computed
    result,         \* the RgbaImage being filled
    \* ---- colormap() and the heat map (rembg.rs 60-76, 168-201)
    t_in,           \* argument of the colormap call, in 1/TDen units
    colour,         \* value returned by the colormap call
    heat_idx,       \* idx of the heat-map pixel
    heat_px,        \* colour written to the heat-map pixel
    \* ---- ModelManager::run_inference (manager.rs 33-94)
    ipc, raw_shape, inf_result,
    \* ---- main() (bin/main.rs 11-101)
    mpc, args, compress, stdout, stderr, files, exit_code

compVars == <<cpc, thr_u8, binary, sticker, width, height, rgba_img,
              smooth_scale, n, mask_value, alpha, result>>
cmVars   == <<t_in, colour, heat_idx, heat_px>>
infVars  == <<ipc, raw_shape, inf_result>>
mainVars == <<mpc, args, compress, stdout, stderr, files, exit_code>>
vars     == <<compVars, cmVars, infVars, mainVars>>

(***************************************************************************)
(* Bounds of the model.                                                    *)
(***************************************************************************)
MaxW == 2
MaxH == 2
Res == 2
MaxRank == 5
MaxDim == 3

U8 == 0..255

(***************************************************************************)
(* f32 helpers.                                                            *)
(***************************************************************************)
\* f32::round of the non-negative rational num/den (den > 0)
Round(num, den) == (2 * num + den) \div (2 * den)

\* (num/den).clamp(0.0, 255.0).round() as u8 ; den = 0 stands for an
\* infinite scale: x * inf is -inf, NaN or +inf, and NaN casts to 0.
ClampRoundU8(num, den) ==
    IF den = 0 THEN (IF num > 0 THEN 255 ELSE 0)
    ELSE IF num <= 0 THEN 0
    ELSE IF num >= 255 * den THEN 255
    ELSE Round(num, den)

(***************************************************************************)
(* The compositor.                                                         *)
(***************************************************************************)
None == [some |-> FALSE]
Some(num, den) == [some |-> TRUE, num |-> num, den |-> den]

SmoothScaleUnguarded(thr) ==
    IF thr <= 255 THEN Some(255, 255 - thr) ELSE None

SmoothScale(thr) ==
    IF thr < 255 THEN Some(255, 255 - thr) ELSE None

BinaryAlphaStrict(m, thr) == IF m > thr THEN 255 ELSE 0

BinaryAlpha(m, thr) == IF m >= thr THEN 255 ELSE 0

SmoothAlphaFlipped(m, thr, scale) ==
    ClampRoundU8((thr - m) * scale.num * 255, scale.den)

SmoothAlpha(m, thr, scale) ==
    ClampRoundU8((m - thr) * scale.num * 255, scale.den)

Alpha(bin, m, thr, scale) ==
    IF bin THEN BinaryAlpha(m, thr)
    ELSE IF scale.some THEN SmoothAlpha(m, thr, scale)
    ELSE IF m = 255 THEN 255 ELSE 0

Coords(w, h) == (0..(w - 1)) \X (0..(h - 1))

MakePixelBgr(src, a) == <<src[3], src[2], src[1], a>>

MakePixel(src, a) == <<src[1], src[2], src[3], a>>

\* source pixels used to fill the input images (RGBA, alpha not 255 in one)
Colours == { <<10, 20, 30, 255>>, <<200, 100, 50, 7>> }
ThrSamples == {0, 128, 255}
MaskSamples == {0, 128, 255}

ZeroImage(w, h) == [p \in Coords(w, h) |-> <<0, 0, 0, 0>>]

\* clean_sticker_border: an image of the same dimensions in which any set
\* of pixels may have been cleared
clean_sticker_border(img) ==
    { [p \in DOMAIN img |-> IF p \in S THEN <<0, 0, 0, 0>> ELSE img[p]] :
        S \in SUBSET (DOMAIN img) }

CompInit(thrs, maxw, maxh, cols, stickers) ==
    /\ cpc = "start"
    /\ thr_u8 \in thrs
    /\ binary \in BOOLEAN
    /\ sticker \in stickers
    /\ width \in 1..maxw
    /\ height \in 1..maxh
    /\ rgba_img \in [Coords(width, height) -> cols]
    /\ smooth_scale = None
    /\ n = 0
    /\ mask_value = 0
    /\ alpha = 0
    /\ result = << >>

CompIdle ==
    /\ cpc = "idle" /\ thr_u8 = 0 /\ binary = FALSE /\ sticker = FALSE
    /\ width = 1 /\ height = 1 /\ rgba_img = << >> /\ smooth_scale = None
    /\ n = 0 /\ mask_value = 0 /\ alpha = 0 /\ result = << >>

\* rembg.rs 119-127: allocate the result, compute smooth_scale
BeginCompose ==
    /\ cpc = "start"
    /\ result' = ZeroImage(width, height)
    /\ smooth_scale' = SmoothScale(thr_u8)
    /\ cpc' = "loop"
    /\ UNCHANGED <<thr_u8, binary, sticker, width, height, rgba_img, n,
                   mask_value, alpha>>

\* rembg.rs 129-151: one iteration of the pixel loop; m is the value of
\* the resized mask at (x, y)
PutPixel(m) ==
    /\ cpc = "loop"
    /\ n < width * height
    /\ LET x == n % width
           y == n \div width
           a == Alpha(binary, m, thr_u8, smooth_scale)
       IN /\ mask_value' = m
          /\ alpha' = a
          /\ result' = [result EXCEPT ![<<x, y>>] = MakePixel(rgba_img[<<x, y>>], a)]
    /\ n' = n + 1
    /\ UNCHANGED <<cpc, thr_u8, binary, sticker, width, height, rgba_img,
                   smooth_scale>>

\* rembg.rs 153-157
FinishCompose ==
    /\ cpc = "loop"
    /\ n = width * height
    /\ IF sticker THEN result' \in clean_sticker_border(result)
                  ELSE result' = result
    /\ cpc' = "done"
    /\ UNCHANGED <<thr_u8, binary, sticker, width, height, rgba_img,
                   smooth_scale, n, mask_value, alpha>>

(***************************************************************************)
(* The colormap and the heat-map lookup table.                             *)
(* A position t in [0,1] is the integer t * TDen.                          *)
(***************************************************************************)
TDen == 100 * Res

\* STOPS, positions in hundredths
STOPS == <<
    <<0,   <<0, 0, 0>>>>,
    <<15,  <<0, 0, 64>>>>,
    <<30,  <<0, 0, 255>>>>,
    <<45,  <<128, 0, 192>>>>,
    <<60,  <<255, 0, 0>>>>,
    <<75,  <<255, 128, 0>>>>,
    <<90,  <<255, 255, 0>>>>,
    <<100, <<255, 255, 255>>>> >>

StopPos(i) == STOPS[i][1] * Res
StopCol(i) == STOPS[i][2]

\* a + (b - a) * t, rounded, for t = t.num / t.den in [0, 1]
LerpReversed(a, b, t) ==
    [c \in 1..3 |-> Round(a[c] * t.den + (b[c] - a[c]) * (t.den - t.num), t.den)]

lerp(a, b, t) ==
    [c \in 1..3 |-> Round(a[c] * t.den + (b[c] - a[c]) * t.num, t.den)]

ClampT(t) == IF t < 0 THEN 0 ELSE IF t > TDen THEN TDen ELSE t

LocalOverEnd(t, t0, t1) ==
    IF t1 > t0 THEN [num |-> t - t0, den |-> t1] ELSE [num |-> 0, den |-> 1]

Local(t, t0, t1) ==
    IF t1 > t0 THEN [num |-> t - t0, den |-> t1 - t0] ELSE [num |-> 0, den |-> 1]

\* the windows w = (STOPS[w], STOPS[w+1]) are tried in order
RECURSIVE ColormapFrom(_, _)
ColormapFrom(t, w) ==
    IF w >= Len(STOPS) THEN StopCol(Len(STOPS))
    ELSE IF t <= StopPos(w + 1)
         THEN lerp(StopCol(w), StopCol(w + 1), Local(t, StopPos(w), StopPos(w + 1)))
         ELSE ColormapFrom(t, w + 1)

colormap(t) == ColormapFrom(ClampT(t), 1)

\* gamma, in tenths
Gamma10 == 5
ClampGamma(g) == IF g < 2 THEN 2 ELSE IF g > 50 THEN 50 ELSE g

ISqrt(x) == CHOOSE r \in 0..x : r * r <= x /\ (r + 1) * (r + 1) > x

\* (i / 255).powf(g) on the grid of TDen steps (rounded down), for the
\* exponents 0.5, 1 and 2
Powf(i, g10) ==
    IF g10 = 5 THEN ISqrt((i * TDen * TDen) \div 255)
    ELSE IF g10 = 10 THEN (i * TDen) \div 255
    ELSE (i * i * TDen) \div (255 * 255)

lut == [i \in 0..255 |-> colormap(Powf(i, ClampGamma(Gamma10)))]

TGrid == (0 - 2 * Res)..(TDen + 2 * Res)

\* the arguments of the two calls are drawn here; << >> is "not yet computed"
CmInit ==
    /\ t_in \in TGrid
    /\ heat_idx \in 0..255
    /\ colour = << >>
    /\ heat_px = << >>

CmIdle == t_in = 0 /\ colour = << >> /\ heat_idx = 0 /\ heat_px = << >>

\* the call colormap(t_in)
EvalColormap ==
    /\ colour = << >>
    /\ colour' = colormap(t_in)
    /\ UNCHANGED <<t_in, heat_idx, heat_px>>

\* rembg.rs 70-76: one heat-map pixel; heat_idx = (s * 255).round()
HeatPixel ==
    /\ heat_px = << >>
    /\ heat_px' = lut[IF heat_idx < 255 THEN heat_idx ELSE 255]
    /\ UNCHANGED <<t_in, colour, heat_idx>>

(***************************************************************************)
(* ModelManager::run_inference.                                            *)
(***************************************************************************)
RECURSIVE SeqsUpTo(_, _)
SeqsUpTo(S, k) ==
    IF k = 0 THEN {<< >>}
    ELSE LET P == SeqsUpTo(S, k - 1)
         IN P \cup { Append(q, d) : q \in { r \in P : Len(r) = k - 1 }, d \in S }

Shapes == SeqsUpTo(1..MaxDim, MaxRank)

Ok(shape) == [ok |-> TRUE, shape |-> shape]
Err(kind) == [ok |-> FALSE, err |-> kind]

AppendAxis(shape) == shape \o <<1>>

\* insert_axis(Axis(0))
InsertAxis0(shape) == <<1>> \o shape

\* manager.rs 72-93
Reshape4d(output_shape) ==
    IF Len(output_shape) = 4 THEN Ok(output_shape)
    ELSE IF Len(output_shape) = 3 THEN Ok(InsertAxis0(output_shape))
    ELSE IF Len(output_shape) = 2 THEN Ok(InsertAxis0(InsertAxis0(output_shape)))
    ELSE Err("TensorError")

InfInit == ipc = "start" /\ raw_shape = << >> /\ inf_result = Err("none")

InfIdle == InfInit

\* session.run(...)? fails
RunFails ==
    /\ ipc' = "run_failed" /\ raw_shape' = << >> /\ inf_result' = Err("OnnxError")

\* outputs.get(output_name) is None
NoOutput ==
    /\ ipc' = "no_output" /\ raw_shape' = << >> /\ inf_result' = Err("TensorError")

\* try_extract_tensor::<f32>() fails
ExtractFails ==
    /\ ipc' = "extract_failed" /\ raw_shape' = << >> /\ inf_result' = Err("TensorError")

\* the raw output has the given shape
RunInference(shape) ==
    /\ ipc' = "extracted" /\ raw_shape' = shape /\ inf_result' = Reshape4d(shape)

RunExtracted == \E shape \in Shapes : RunInference(shape)

(***************************************************************************)
(* main().                                                                 *)
(***************************************************************************)
NoPath == << >>
OutputPaths == {
    [parent |-> <<"">>,    stem |-> <<"out">>, ext |-> <<"png">>],
    [parent |-> <<"dir">>, stem |-> <<"pic">>, ext |-> << >>],
    [parent |-> << >>,     stem |-> << >>,     ext |-> << >>] }

\* bin/main.rs 104-118
generate_mask_path(output_path) ==
    LET file_stem == IF output_path.stem = << >> THEN <<"output">> ELSE output_path.stem
        extension == IF output_path.ext = << >> THEN <<"png">> ELSE output_path.ext
        parent    == IF output_path.parent = << >> THEN <<".">> ELSE output_path.parent
    IN [parent |-> parent, stem |-> file_stem \o <<"_mask">>, ext |-> extension]

MainInit ==
    /\ mpc = "load_model"
    /\ args \in [save_mask : BOOLEAN, output : OutputPaths]
    /\ compress \in BOOLEAN
    /\ stdout = {} /\ stderr = {} /\ files = {} /\ exit_code = -1

MainIdle ==
    /\ mpc = "idle"
    /\ args = [save_mask |-> FALSE, output |-> NoPath]
    /\ compress = TRUE
    /\ stdout = {} /\ stderr = {} /\ files = {} /\ exit_code = -1

\* eprintln!(msg); process::exit(1)
Fail(msg) ==
    /\ stderr' = stderr \cup {msg}
    /\ exit_code' = 1
    /\ mpc' = "exited"
    /\ UNCHANGED <<args, compress, stdout, files>>

Goto(pc) ==
    /\ mpc' = pc
    /\ UNCHANGED <<args, compress, stdout, stderr, files, exit_code>>

\* bin/main.rs 20-28
LoadModel ==
    /\ mpc = "load_model"
    /\ \E ok \in BOOLEAN :
         IF ok THEN /\ mpc' = "load_image"
                    /\ stdout' = stdout \cup {"Model loaded"}
                    /\ UNCHANGED <<args, compress, stderr, files, exit_code>>
               ELSE Fail("Failed to manager")

\* bin/main.rs 30-38
LoadImage ==
    /\ mpc = "load_image"
    /\ \E ok \in BOOLEAN :
         IF ok THEN Goto("process") ELSE Fail("Failed to load image")

\* bin/main.rs 40-57
Process ==
    /\ mpc = "process"
    /\ \E ok \in BOOLEAN :
         IF ok THEN Goto("save") ELSE Fail("Error")

PrimaryWritten ==
    /\ files' = files \cup {args.output}
    /\ mpc' = "mask"
    /\ UNCHANGED <<args, compress, stdout, stderr, exit_code>>

SavePrimaryLenient ==
    /\ mpc = "save"
    /\ \E outcome \in {"ok", "fail"} :
         IF outcome = "ok" THEN PrimaryWritten ELSE Goto("mask")

\* bin/main.rs 59-81
SavePrimary ==
    /\ mpc = "save"
    /\ IF compress
       THEN \E outcome \in {"ok", "compress_err", "write_err"} :
              IF outcome = "ok" THEN PrimaryWritten
              ELSE IF outcome = "write_err" THEN Fail("Writing failed")
              ELSE Fail("Compression failed")
       ELSE \E outcome \in {"ok", "save_err"} :
              IF outcome = "ok" THEN PrimaryWritten
              ELSE Fail("Failed to save result")

\* bin/main.rs 83-93
SaveMask ==
    /\ mpc = "mask"
    /\ IF args.save_mask
       THEN \E ok \in BOOLEAN :
              /\ files' = IF ok THEN files \cup {generate_mask_path(args.output)}
                                ELSE files
              /\ stderr' = IF ok THEN stderr ELSE stderr \cup {"Failed to save mask"}
              /\ stdout' = stdout \cup {"Saving mask to"}
       ELSE UNCHANGED <<files, stderr, stdout>>
    /\ mpc' = "report"
    /\ UNCHANGED <<args, compress, exit_code>>

\* bin/main.rs 95-101, then main returns
ReportSuccess ==
    /\ mpc = "report"
    /\ stdout' = stdout \cup {"Background removed successfully"}
                        \cup (IF args.save_mask THEN {"Mask saved alongside output"} ELSE {})
    /\ exit_code' = 0
    /\ mpc' = "exited"
    /\ UNCHANGED <<args, compress, stderr, files>>

(***************************************************************************)
(* The alpha rule over every threshold and every mask value (one pixel).   *)
(***************************************************************************)
InitAlpha ==
    /\ CompInit(U8, 1, 1, {<<10, 20, 30, 255>>}, {FALSE})
    /\ CmIdle /\ InfIdle /\ MainIdle

PutAnyPixel == \E m \in U8 : PutPixel(m)

NextAlpha ==
    \/ (BeginCompose /\ UNCHANGED <<cmVars, infVars, mainVars>>)
    \/ (PutAnyPixel /\ UNCHANGED <<cmVars, infVars, mainVars>>)
    \/ (FinishCompose /\ UNCHANGED <<cmVars, infVars, mainVars>>)

SpecAlpha == InitAlpha /\ [][NextAlpha]_vars

(***************************************************************************)
(* The compositor over small images.                                       *)
(***************************************************************************)
InitImage ==
    /\ CompInit(ThrSamples, MaxW, MaxH, Colours, BOOLEAN)
    /\ CmIdle /\ InfIdle /\ MainIdle

PutSamplePixel == \E m \in MaskSamples : PutPixel(m)

NextImage ==
    \/ (BeginCompose /\ UNCHANGED <<cmVars, infVars, mainVars>>)
    \/ (PutSamplePixel /\ UNCHANGED <<cmVars, infVars, mainVars>>)
    \/ (FinishCompose /\ UNCHANGED <<cmVars, infVars, mainVars>>)

SpecImage == InitImage /\ [][NextImage]_vars

(***************************************************************************)
(* The colormap over the grid of positions and the heat-map lookup.        *)
(***************************************************************************)
InitColormap == CompIdle /\ CmInit /\ InfIdle /\ MainIdle

NextColormap ==
    \/ (EvalColormap /\ UNCHANGED <<compVars, infVars, mainVars>>)
    \/ (HeatPixel /\ UNCHANGED <<compVars, infVars, mainVars>>)

SpecColormap == InitColormap /\ [][NextColormap]_vars

(***************************************************************************)
(* run_inference over raw outputs of every rank up to MaxRank.             *)
(***************************************************************************)
InitInference == CompIdle /\ CmIdle /\ InfInit /\ MainIdle

NextInference ==
    \/ (RunFails /\ UNCHANGED <<compVars, cmVars, mainVars>>)
    \/ (NoOutput /\ UNCHANGED <<compVars, cmVars, mainVars>>)
    \/ (ExtractFails /\ UNCHANGED <<compVars, cmVars, mainVars>>)
    \/ (RunExtracted /\ UNCHANGED <<compVars, cmVars, mainVars>>)

SpecInference == InitInference /\ [][NextInference]_vars

(***************************************************************************)
(* The command-line run.                                                   *)
(***************************************************************************)
InitMain == CompIdle /\ CmIdle /\ InfIdle /\ MainInit

NextMain ==
    \/ (LoadModel /\ UNCHANGED <<compVars, cmVars, infVars>>)
    \/ (LoadImage /\ UNCHANGED <<compVars, cmVars, infVars>>)
    \/ (Process /\ UNCHANGED <<compVars, cmVars, infVars>>)
    \/ (SavePrimary /\ UNCHANGED <<compVars, cmVars, infVars>>)
    \/ (SaveMask /\ UNCHANGED <<compVars, cmVars, infVars>>)
    \/ (ReportSuccess /\ UNCHANGED <<compVars, cmVars, infVars>>)

SpecMain == InitMain /\ [][NextMain]_vars

(***************************************************************************)
(* Properties.                                                             *)
(***************************************************************************)
\* position visited by the last iteration of the pixel loop
LastXY == <<(n - 1) % width, (n - 1) \div width>>
Composited == cpc = "loop" /\ n > 0

\* C1: in binary mode the alpha written for a pixel is 255 when the mask
\* value is at least the threshold and 0 otherwise, so it is 0 or 255.
C1_BinaryAlpha ==
    (Composited /\ binary) =>
        /\ alpha = (IF mask_value >= thr_u8 THEN 255 ELSE 0)
        /\ alpha \in {0, 255}
        /\ result[LastXY][4] = alpha

C1_Witness ==
    Composited /\ binary /\ thr_u8 = 128 /\ mask_value = thr_u8 /\ alpha = 255

\* the stretch of the documented smooth rule: clamp((m - T) * 255 / (255 - T))
SmoothStretch(m, thr) == ClampRoundU8((m - thr) * 255, 255 - thr)

\* C2: in smooth mode with threshold below 255 the alpha is the linear
\* stretch of [T, 255] onto [0, 255], clamped and rounded (m = 200, T = 150
\* gives 121).
C2_SmoothStretch ==
    (Composited /\ ~binary /\ thr_u8 < 255) =>
        alpha = SmoothStretch(mask_value, thr_u8)

\* C3: in smooth mode with threshold 0 the alpha is the mask value itself.
C3_SmoothIdentity ==
    (Composited /\ ~binary /\ thr_u8 = 0) => alpha = mask_value

\* C4: in smooth mode with threshold 255 no scale is computed (so nothing
\* is divided by zero) and the alpha is 255 exactly when the mask value is
\* 255, and 0 otherwise.
C4_SmoothDegenerate ==
    /\ (cpc # "start" /\ smooth_scale.some) => smooth_scale.den # 0
    /\ (cpc # "start" /\ thr_u8 = 255) => smooth_scale = None
    /\ (Composited /\ ~binary /\ thr_u8 = 255) =>
          alpha = (IF mask_value = 255 THEN 255 ELSE 0)

C4_Witness ==
    Composited /\ ~binary /\ thr_u8 = 255 /\ mask_value = 255 /\ alpha = 255
    /\ smooth_scale = None

\* C5: with the sticker option off the returned image has the dimensions
\* of the source and the source's R, G and B at every position; the alpha
\* is the computed one, not the source's.
C5_RgbCopied ==
    /\ (cpc = "done" /\ ~sticker) =>
          /\ DOMAIN result = Coords(width, height)
          /\ DOMAIN result = DOMAIN rgba_img
          /\ \A p \in DOMAIN result :
                \A c \in 1..3 : result[p][c] = rgba_img[p][c]
    /\ Composited =>
          /\ \A c \in 1..3 : result[LastXY][c] = rgba_img[LastXY][c]
          /\ result[LastXY][4] = alpha

C5_Witness ==
    /\ cpc = "done" /\ ~sticker /\ width = 2 /\ height = 2
    /\ rgba_img[<<1, 0>>] # rgba_img[<<0, 1>>]
    /\ rgba_img[<<1, 0>>][4] = 7
    /\ result[<<1, 0>>] = <<200, 100, 50, 255>>
    /\ result[<<0, 1>>] = <<10, 20, 30, 0>>

\* C10: in every mode and for every threshold the alpha is non-decreasing
\* in the mask value, 0 below the threshold and 255 at mask value 255.
C10_AlphaMonotone ==
    Composited =>
        /\ mask_value < thr_u8 => alpha = 0
        /\ mask_value = 255 => alpha = 255
        /\ mask_value < 255 =>
              alpha <= Alpha(binary, mask_value + 1, thr_u8, smooth_scale)

C10_Witness ==
    /\ Composited /\ ~binary /\ thr_u8 = 100
    /\ mask_value = 100 /\ alpha = 0
    /\ Alpha(binary, mask_value + 1, thr_u8, smooth_scale) = 255

\* C6 (as stated): a raw output of rank 2, 3 or 4 gives a 4-dimensional
\* tensor with a first axis of size 1 and the trailing two axes of the raw
\* output; any other rank gives a TensorError.
C6_BatchIsOne ==
    ipc = "extracted" =>
        IF Len(raw_shape) \in 2..4
        THEN /\ inf_result.ok
             /\ Len(inf_result.shape) = 4
             /\ inf_result.shape[1] = 1
             /\ inf_result.shape[3] = raw_shape[Len(raw_shape) - 1]
             /\ inf_result.shape[4] = raw_shape[Len(raw_shape)]
        ELSE inf_result = Err("TensorError")

\* C6 (amended): a raw output of rank 2, 3 or 4 gives a 4-dimensional
\* tensor with the trailing two axes of the raw output, whose first axis
\* has size 1 for rank 2 and 3 and which is the raw shape itself for rank
\* 4; any other rank gives a TensorError.
C6_Reshape4d ==
    ipc = "extracted" =>
        IF Len(raw_shape) \in 2..4
        THEN /\ inf_result.ok
             /\ Len(inf_result.shape) = 4
             /\ Len(raw_shape) \in 2..3 => inf_result.shape[1] = 1
             /\ Len(raw_shape) = 2 => inf_result.shape[2] = 1
             /\ Len(raw_shape) = 4 => inf_result.shape = raw_shape
             /\ inf_result.shape[3] = raw_shape[Len(raw_shape) - 1]
             /\ inf_result.shape[4] = raw_shape[Len(raw_shape)]
        ELSE inf_result = Err("TensorError")

C6_Witness ==
    /\ ipc = "extracted" /\ raw_shape = <<2, 3>>
    /\ inf_result = Ok(<<1, 1, 2, 3>>)

PrimaryFailures == {"Writing failed", "Compression failed", "Failed to save result"}
MaskFile == generate_mask_path(args.output)
Success == "Background removed successfully"

\* C7: a failure of the primary output ends the run with exit code 1
\* before any mask is written or success is reported; a failure to save
\* the mask is reported and the run still ends with success and the
\* primary output written; the mask is only saved after the primary
\* output was written.
C7_PrimaryFatalMaskNot ==
    /\ (stderr \cap PrimaryFailures # {}) =>
          /\ mpc = "exited" /\ exit_code = 1
          /\ files = {}
          /\ Success \notin stdout
          /\ "Saving mask to" \notin stdout
    /\ ("Failed to save mask" \in stderr) =>
          /\ args.output \in files
          /\ mpc \in {"report", "exited"}
          /\ exit_code # 1
          /\ mpc = "exited" => (exit_code = 0 /\ Success \in stdout)
    /\ ("Saving mask to" \in stdout \/ MaskFile \in files) => args.output \in files
    /\ Success \in stdout => args.output \in files

C7_Witness ==
    /\ mpc = "exited" /\ exit_code = 0 /\ args.save_mask
    /\ "Failed to save mask" \in stderr
    /\ files = {args.output}
    /\ Success \in stdout

\* the blue channel falls from blue (0.30) over purple (0.45) to red (0.60)
BlueFalls(t) == StopPos(3) <= t /\ t < StopPos(5)

\* C8 (as stated): between consecutive anchors each of R, G and B is
\* non-decreasing as t increases.
C8_AllChannelsNonDecreasing ==
    (colour # << >> /\ 0 <= t_in /\ t_in < TDen) =>
        \A c \in 1..3 : colour[c] <= colormap(t_in + 1)[c]

\* C8 (amended): R and G are non-decreasing in t over the whole ramp and
\* over the lookup table; B is non-decreasing between consecutive anchors
\* except from 0.30 to 0.60 (blue, purple, red), where it is non-increasing.
C8_RampMonotone ==
    /\ (colour # << >> /\ 0 <= t_in /\ t_in < TDen) =>
          /\ \A c \in 1..2 : colour[c] <= colormap(t_in + 1)[c]
          /\ ~BlueFalls(t_in) => colour[3] <= colormap(t_in + 1)[3]
          /\ BlueFalls(t_in) => colour[3] >= colormap(t_in + 1)[3]
    /\ (heat_px # << >> /\ heat_idx < 255) =>
          \A c \in 1..2 : heat_px[c] <= lut[heat_idx + 1][c]

C8_Witness ==
    /\ colour # << >> /\ t_in = StopPos(3)
    /\ colour = <<0, 0, 255>>
    /\ colormap(t_in + 1)[3] < colour[3]
    /\ colormap(t_in + 1)[1] > colour[1]
    /\ heat_px # << >>

\* C9: colormap returns the anchor colour at each anchor position, black
\* at 0.0 and below, white at 1.0 and above.
C9_AnchorsExact ==
    colour # << >> =>
        /\ \A i \in 1..Len(STOPS) : t_in = StopPos(i) => colour = StopCol(i)
        /\ t_in <= 0 => colour = <<0, 0, 0>>
        /\ t_in >= TDen => colour = <<255, 255, 255>>

C9_Witness ==
    colour = <<128, 0, 192>> /\ t_in = StopPos(4)

====
